---- MODULE Spec2Model ----
(***************************************************************************)
(* Model of src/donation-tracker.py: a menu loop over one SQLite           *)
(* connection with four tables (Donors, Volunteers, Events, Donations).    *)
(*                                                                         *)
(* Text is a sequence of one-character strings, so that strip(), LOWER(),  *)
(* LIKE, int(), float(), strptime() and the BINARY collation are computed  *)
(* character by character.  A nullable value is <<>> (NULL / None) or a    *)
(* one-element sequence <<v>>.                                             *)
(***************************************************************************)
EXTENDS Integers, Sequences, FiniteSets, TLC

\* ------------------------------------------------------------------ bounds

\* Successful INSERTs in one run, over the four tables together.
MaxInserts == 3

\* ------------------------------------------------------------------ text

None == <<>>

Some(v) == <<v>>

IsWhitespace(c) == c = " "

RECURSIVE lstrip(_)
lstrip(s) ==
    IF s # <<>> /\ IsWhitespace(Head(s)) THEN lstrip(Tail(s)) ELSE s

RECURSIVE rstrip(_)
rstrip(s) ==
    IF s # <<>> /\ IsWhitespace(s[Len(s)])
    THEN rstrip(SubSeq(s, 1, Len(s) - 1))
    ELSE s

\* str.strip()
strip(s) == rstrip(lstrip(s))

\* ASCII code of the characters the inputs use.
Ord(c) ==
    CASE c = " " -> 32 [] c = "%" -> 37 [] c = "-" -> 45
      [] c = "0" -> 48 [] c = "1" -> 49 [] c = "2" -> 50 [] c = "3" -> 51
      [] c = "4" -> 52 [] c = "5" -> 53 [] c = "6" -> 54 [] c = "7" -> 55
      [] c = "8" -> 56 [] c = "9" -> 57 [] c = ":" -> 58
      [] c = "A" -> 65 [] c = "B" -> 66 [] c = "E" -> 69 [] c = "N" -> 78
      [] c = "S" -> 83 [] c = "Y" -> 89 [] c = "_" -> 95
      [] c = "a" -> 97 [] c = "b" -> 98 [] c = "e" -> 101 [] c = "n" -> 110
      [] c = "o" -> 111 [] c = "s" -> 115 [] c = "x" -> 120 [] c = "y" -> 121

\* ASCII case folding of one character (SQLite LOWER(), str.lower()).
LowerChar(c) ==
    CASE c = "A" -> "a" [] c = "B" -> "b" [] c = "E" -> "e" [] c = "N" -> "n"
      [] c = "S" -> "s" [] c = "Y" -> "y" [] OTHER -> c

LOWER(s) == [i \in DOMAIN s |-> LowerChar(s[i])]

\* BINARY collation: s sorts strictly before t.
RECURSIVE TextLess(_, _)
TextLess(s, t) ==
    IF t = <<>> THEN FALSE
    ELSE IF s = <<>> THEN TRUE
    ELSE IF Head(s) # Head(t) THEN Ord(Head(s)) < Ord(Head(t))
    ELSE TextLess(Tail(s), Tail(t))

IsDigit(c) == c \in {"0", "1", "2", "3", "4", "5", "6", "7", "8", "9"}

DigitVal(c) == Ord(c) - Ord("0")

RECURSIVE NatOf(_)
NatOf(ds) ==
    IF ds = <<>> THEN 0
    ELSE NatOf(SubSeq(ds, 1, Len(ds) - 1)) * 10 + DigitVal(ds[Len(ds)])

AllDigits(s) == s # <<>> /\ \A i \in DOMAIN s : IsDigit(s[i])

\* int(text): None stands for ValueError.
int(s) ==
    LET t == strip(s)
    IN  IF AllDigits(t) THEN Some(NatOf(t))
        ELSE IF t # <<>> /\ Head(t) = "-" /\ AllDigits(Tail(t))
        THEN Some(0 - NatOf(Tail(t)))
        ELSE None

\* float(text) on integer literals and "nan": None stands for ValueError.
float(s) ==
    LET t == strip(s)
    IN  IF LOWER(t) = <<"n", "a", "n">> THEN Some([kind |-> "nan"])
        ELSE IF AllDigits(t) THEN Some([kind |-> "num", v |-> NatOf(t)])
        ELSE IF t # <<>> /\ Head(t) = "-" /\ AllDigits(Tail(t))
        THEN Some([kind |-> "num", v |-> 0 - NatOf(Tail(t))])
        ELSE None

\* amount <= 0 on a float: every comparison with nan is False.
NonPositive(f) == f.kind = "num" /\ f.v <= 0

\* ------------------------------------------------------------------ dates

\* Number of digits of s from position i on, at most w.
RECURSIVE DigitRun(_, _, _)
DigitRun(s, i, w) ==
    IF w = 0 \/ i > Len(s) \/ ~IsDigit(s[i]) THEN 0
    ELSE 1 + DigitRun(s, i + 1, w - 1)

IsLeap(y) == (y % 4 = 0 /\ y % 100 # 0) \/ y % 400 = 0

DaysIn(y, m) ==
    IF m = 2 THEN (IF IsLeap(y) THEN 29 ELSE 28)
    ELSE IF m \in {4, 6, 9, 11} THEN 30 ELSE 31

\* One numeric field of at most w digits at position i, followed by the
\* literal sep (<<>> for the end of the text): <<value, next position>> or None.
DateField(s, i, w, sep) ==
    LET n == DigitRun(s, i, w)
        j == i + n
    IN  IF n = 0 THEN None
        ELSE IF sep = <<>> THEN
            (IF j = Len(s) + 1 THEN Some(<<NatOf(SubSeq(s, i, j - 1)), j>>) ELSE None)
        ELSE IF j <= Len(s) /\ s[j] = sep[1]
            THEN Some(<<NatOf(SubSeq(s, i, j - 1)), j + 1>>)
            ELSE None

FMT_DATE == "%Y-%m-%d"

FMT_DATETIME == "%Y-%m-%d %H:%M:%S"

\* datetime.strptime(s, fmt) for the two formats the program uses: the
\* parsed fields <<Y, M, D, h, m, s>> wrapped in Some, or None for ValueError.
strptime(s, fmt) ==
    LET y == IF DigitRun(s, 1, 4) = 4 /\ Len(s) >= 5 /\ s[5] = "-"
             THEN Some(<<NatOf(SubSeq(s, 1, 4)), 6>>) ELSE None
    IN  IF y = None THEN None ELSE
    LET mo == DateField(s, y[1][2], 2, <<"-">>)
    IN  IF mo = None \/ mo[1][1] \notin 1..12 THEN None ELSE
    LET d == DateField(s, mo[1][2], 2, IF fmt = FMT_DATE THEN <<>> ELSE <<" ">>)
    IN  IF d = None \/ d[1][1] \notin 1..DaysIn(y[1][1], mo[1][1]) THEN None
        ELSE IF fmt = FMT_DATE THEN Some(<<y[1][1], mo[1][1], d[1][1], 0, 0, 0>>) ELSE
    LET h == DateField(s, d[1][2], 2, <<":">>)
    IN  IF h = None \/ h[1][1] \notin 0..23 THEN None ELSE
    LET mi == DateField(s, h[1][2], 2, <<":">>)
    IN  IF mi = None \/ mi[1][1] \notin 0..59 THEN None ELSE
    LET se == DateField(s, mi[1][2], 2, <<>>)
    IN  IF se = None \/ se[1][1] \notin 0..59 THEN None
        ELSE Some(<<y[1][1], mo[1][1], d[1][1], h[1][1], mi[1][1], se[1][1]>>)

\* ------------------------------------------------------------------ inputs

\* What the user types at a name prompt.
NameInputs == {<<" ">>, <<" ", "a">>, <<"A">>, <<"a", "b">>}

ContactInputs == {<<>>, <<"x">>}

NotesInputs == {<<"n", " ">>}

\* "2024-10-01"
D_OCT == <<"2", "0", "2", "4", "-", "1", "0", "-", "0", "1">>

\* "2024-10-01 00:00:00"
T_OCT ==
    <<"2", "0", "2", "4", "-", "1", "0", "-", "0", "1", " ", "0", "0", ":", "0", "0", ":", "0", "0">>

\* "2024-9-01 00:00:00": a month without its leading zero.
T_SEP ==
    <<"2", "0", "2", "4", "-", "9", "-", "0", "1", " ", "0", "0", ":", "0", "0", ":", "0", "0">>

EventDateInputs == {<<>>, D_OCT, <<"x">>}

DonationDateInputs == {<<>>, T_SEP, D_OCT}

\* What CURRENT_TIMESTAMP and datetime.now().strftime(...) can produce.
ClockValues == {T_OCT}

AmountInputs == {<<"x">>, <<"0">>, <<"-", "5">>, <<"5">>, <<"n", "a", "n">>}

Digits == <<"1", "2", "3", "4", "5", "6", "7", "8", "9">>

IdInputs ==
    {<<Digits[n]>> : n \in 1..(MaxInserts + 1)} \cup {<<"x">>, <<" ", "1">>}

ConfirmInputs ==
    {<<"y", "e", "s">>, <<"Y", "E", "S">>, <<"n", "o">>, <<" ", "y", "e", "s">>}

SearchChoiceInputs == {"1", "2", "3", "4"}

TermInputs == {<<" ">>, <<"a">>, <<"B">>, <<"_">>, <<"%">>}

\* ------------------------------------------------------------------ state

VARIABLES
    Donors,           \* rows of table Donors
    Volunteers,       \* rows of table Volunteers
    Events,           \* rows of table Events
    Donations,        \* rows of table Donations
    sqlite_sequence,  \* AUTOINCREMENT: the largest id each table has handed out
    last              \* the screen: the menu, or the operation just run with what it read

tables == <<Donors, Volunteers, Events, Donations, sqlite_sequence>>

vars == <<Donors, Volunteers, Events, Donations, sqlite_sequence, last>>

\* create_tables on a new database file.
Init ==
    /\ Donors = {}
    /\ Volunteers = {}
    /\ Events = {}
    /\ Donations = {}
    /\ sqlite_sequence = [Donors |-> 0, Volunteers |-> 0, Events |-> 0, Donations |-> 0]
    /\ last = [op |-> "menu"]

Inserted ==
    sqlite_sequence.Donors + sqlite_sequence.Volunteers
        + sqlite_sequence.Events + sqlite_sequence.Donations

CanInsert == Inserted < MaxInserts

\* The menu is on screen and main waits for a choice.
AtMenu == last.op = "menu"

\* ------------------------------------------------------------------ store

\* Mutant of IsEmpty: the emptiness test is lost.
IsEmpty_Never(s) == FALSE

\* `if not text`
IsEmpty(s) == s = <<>>

\* Mutant of UniqueViolation: the column is declared without UNIQUE.
UniqueViolation_Off(rows, name) == FALSE

\* name TEXT NOT NULL UNIQUE: the insert of `name` into `rows` fails.
UniqueViolation(rows, name) == \E r \in rows : r.name = name

\* Mutant of OnDeleteCascade: foreign keys are not enforced, nothing cascades.
OnDeleteCascade_NoAction(donations, donor_id) == donations

\* Mutant of OnDeleteCascade: the foreign key is declared on donation_id.
OnDeleteCascade_WrongKey(donations, donor_id) ==
    {d \in donations : d.donation_id # donor_id}

\* Mutant of OnDeleteCascade: the cascade is not restricted to the donor's rows.
OnDeleteCascade_All(donations, donor_id) == {}

\* FOREIGN KEY (donor_id) REFERENCES Donors(donor_id) ON DELETE CASCADE
OnDeleteCascade(donations, donor_id) ==
    {d \in donations : d.donor_id # donor_id}

\* Mutant of DonationConstraints: amount is declared without NOT NULL and CHECK.
DonationConstraints_NoAmount(row) ==
    /\ \E r \in Donors : r.donor_id = row.donor_id
    /\ row.volunteer_id = None
         \/ \E r \in Volunteers : r.volunteer_id = row.volunteer_id[1]
    /\ row.event_id = None
         \/ \E r \in Events : r.event_id = row.event_id[1]

\* The column constraints of Donations on a row about to be inserted.
DonationConstraints(row) ==
    /\ row.amount.kind = "num"
    /\ row.amount.v > 0
    /\ \E r \in Donors : r.donor_id = row.donor_id
    /\ row.volunteer_id = None
         \/ \E r \in Volunteers : r.volunteer_id = row.volunteer_id[1]
    /\ row.event_id = None
         \/ \E r \in Events : r.event_id = row.event_id[1]

\* Mutant of find_id_by_name: the WHERE clause matches a prefix of the name.
find_id_by_name_Prefix(rows, id, name_value) ==
    LET hits == {r \in rows :
                    /\ Len(r.name) >= Len(name_value)
                    /\ LOWER(SubSeq(r.name, 1, Len(name_value))) = LOWER(name_value)}
    IN  IF hits = {} THEN {None} ELSE {Some(r[id]) : r \in hits}

\* The values find_id_by_name can return on a table whose rows carry their
\* id in the field `id`: None, or the id of any row the WHERE clause selects
\* (fetchone takes the first row of a query without ORDER BY).
find_id_by_name(rows, id, name_value) ==
    LET hits == {r \in rows : LOWER(r.name) = LOWER(name_value)}
    IN  IF hits = {} THEN {None} ELSE {Some(r[id]) : r \in hits}

\* ------------------------------------------------------------------ donors

add_donor ==
    /\ AtMenu
    /\ \E name_in \in NameInputs, contact_in \in ContactInputs :
        LET name == strip(name_in)
            contact_info == strip(contact_in)
            read == [op |-> "add_donor", name |-> name_in, contact_info |-> contact_in]
        IN  IF IsEmpty(name)
            THEN /\ last' = read @@ [out |-> "empty name"]
                 /\ UNCHANGED tables
            ELSE /\ CanInsert
                 /\ \E now \in ClockValues :
                      LET lastrowid == sqlite_sequence.Donors + 1
                      IN  /\ Donors' = Donors \cup
                                {[donor_id |-> lastrowid, name |-> name,
                                  contact_info |-> contact_info, created_at |-> now]}
                          /\ sqlite_sequence' = [sqlite_sequence EXCEPT !.Donors = lastrowid]
                          /\ last' = read @@ [out |-> "added", id |-> lastrowid]
                 /\ UNCHANGED <<Volunteers, Events, Donations>>

\* fetchall: every listing of the rows, each row once.
Listings(rows) ==
    {s \in [1..Cardinality(rows) -> rows] :
        \A i, j \in DOMAIN s : i # j => s[i] # s[j]}

\* ORDER BY name: no row comes after one whose name sorts after its own.
OrderByName(rows) ==
    {s \in Listings(rows) :
        \A i, j \in DOMAIN s : i < j => ~TextLess(s[j].name, s[i].name)}

\* ORDER BY d.donation_date DESC
OrderByDonationDateDesc(rows) ==
    {s \in Listings(rows) :
        \A i, j \in DOMAIN s :
            i < j => ~TextLess(s[i].donation_date, s[j].donation_date)}

view_donors ==
    /\ AtMenu
    /\ \E donors \in OrderByName(Donors) :
          last' = [op |-> "view_donors", rows |-> donors]
    /\ UNCHANGED tables

\* Mutant of update_fields: a blank answer is written like any other.
update_fields_All(new_name, new_contact_info) ==
    [name |-> Some(new_name), contact_info |-> Some(new_contact_info)]

\* The SET clause update_donor builds: for each column the new value, or None
\* when the column is left out.
update_fields(new_name, new_contact_info) ==
    [name |-> IF IsEmpty(new_name) THEN None ELSE Some(new_name),
     contact_info |-> IF IsEmpty(new_contact_info) THEN None ELSE Some(new_contact_info)]

update_donor ==
    /\ AtMenu
    /\ \E id_in \in IdInputs :
        LET parsed == int(id_in)
            read == [op |-> "update_donor", id |-> id_in]
        IN  IF parsed = None
            THEN /\ last' = read @@ [out |-> "invalid id"]
                 /\ UNCHANGED tables
            ELSE
            LET donor_id == parsed[1]
                donor == {r \in Donors : r.donor_id = donor_id}
            IN  IF donor = {}
                THEN /\ last' = read @@ [out |-> "not found"]
                     /\ UNCHANGED tables
                ELSE \E name_in \in NameInputs, contact_in \in ContactInputs :
                    LET fields == update_fields(strip(name_in), strip(contact_in))
                        read2 == read @@ [new_name |-> name_in, new_contact_info |-> contact_in]
                    IN  IF fields.name = None /\ fields.contact_info = None
                        THEN /\ last' = read2 @@ [out |-> "no changes"]
                             /\ UNCHANGED tables
                        ELSE /\ Donors' =
                                  {IF r.donor_id # donor_id THEN r
                                   ELSE [r EXCEPT
                                           !.name = IF fields.name = None
                                                    THEN @ ELSE fields.name[1],
                                           !.contact_info = IF fields.contact_info = None
                                                            THEN @ ELSE fields.contact_info[1]]
                                   : r \in Donors}
                             /\ last' = read2 @@ [out |-> "updated"]
                             /\ UNCHANGED <<Volunteers, Events, Donations, sqlite_sequence>>

delete_donor ==
    /\ AtMenu
    /\ \E id_in \in IdInputs :
        LET parsed == int(id_in)
            read == [op |-> "delete_donor", id |-> id_in]
        IN  IF parsed = None
            THEN /\ last' = read @@ [out |-> "invalid id"]
                 /\ UNCHANGED tables
            ELSE
            LET donor_id == parsed[1]
                donor == {r \in Donors : r.donor_id = donor_id}
            IN  IF donor = {}
                THEN /\ last' = read @@ [out |-> "not found"]
                     /\ UNCHANGED tables
                ELSE \E confirm_in \in ConfirmInputs :
                    LET confirm == LOWER(confirm_in)
                        read2 == read @@ [confirm |-> confirm_in]
                    IN  IF confirm # <<"y", "e", "s">>
                        THEN /\ last' = read2 @@ [out |-> "cancelled"]
                             /\ UNCHANGED tables
                        ELSE /\ Donors' = {r \in Donors : r.donor_id # donor_id}
                             /\ Donations' = OnDeleteCascade(Donations, donor_id)
                             /\ last' = read2 @@ [out |-> "deleted"]
                             /\ UNCHANGED <<Volunteers, Events, sqlite_sequence>>

\* ------------------------------------------------------------------ volunteers, events

add_volunteer ==
    /\ AtMenu
    /\ \E name_in \in NameInputs, contact_in \in ContactInputs :
        LET name == strip(name_in)
            contact_info == strip(contact_in)
            read == [op |-> "add_volunteer", name |-> name_in, contact_info |-> contact_in]
        IN  IF IsEmpty(name)
            THEN /\ last' = read @@ [out |-> "empty name"]
                 /\ UNCHANGED tables
            ELSE IF UniqueViolation(Volunteers, name)
            THEN /\ last' = read @@ [out |-> "integrity error"]
                 /\ UNCHANGED tables
            ELSE /\ CanInsert
                 /\ LET lastrowid == sqlite_sequence.Volunteers + 1
                    IN  /\ Volunteers' = Volunteers \cup
                              {[volunteer_id |-> lastrowid, name |-> name,
                                contact_info |-> contact_info]}
                        /\ sqlite_sequence' = [sqlite_sequence EXCEPT !.Volunteers = lastrowid]
                        /\ last' = read @@ [out |-> "added", id |-> lastrowid]
                 /\ UNCHANGED <<Donors, Events, Donations>>

add_event ==
    /\ AtMenu
    /\ \E name_in \in NameInputs, date_in \in EventDateInputs :
        LET name == strip(name_in)
            event_date_str == strip(date_in)
            read == [op |-> "add_event", name |-> name_in, event_date |-> date_in]
        IN  IF IsEmpty(name)
            THEN /\ last' = read @@ [out |-> "empty name"]
                 /\ UNCHANGED tables
            ELSE IF ~IsEmpty(event_date_str) /\ strptime(event_date_str, FMT_DATE) = None
            THEN /\ last' = read @@ [out |-> "invalid date"]
                 /\ UNCHANGED tables
            ELSE IF UniqueViolation(Events, name)
            THEN /\ last' = read @@ [out |-> "integrity error"]
                 /\ UNCHANGED tables
            ELSE /\ CanInsert
                 /\ LET lastrowid == sqlite_sequence.Events + 1
                    IN  /\ Events' = Events \cup
                              {[event_id |-> lastrowid, name |-> name,
                                event_date |-> IF IsEmpty(event_date_str)
                                               THEN None ELSE Some(event_date_str)]}
                        /\ sqlite_sequence' = [sqlite_sequence EXCEPT !.Events = lastrowid]
                        /\ last' = read @@ [out |-> "added", id |-> lastrowid]
                 /\ UNCHANGED <<Donors, Volunteers, Donations>>

\* ------------------------------------------------------------------ donations

add_donation ==
    /\ AtMenu
    /\ \E donor_name_in \in NameInputs :
        LET donor_name == strip(donor_name_in)
            read1 == [op |-> "add_donation", donor_name |-> donor_name_in]
        IN  \E found_donor \in find_id_by_name(Donors, "donor_id", donor_name) :
            IF found_donor = None
            THEN /\ last' = read1 @@ [out |-> "donor not found"]
                 /\ UNCHANGED tables
            ELSE \E amount_in \in AmountInputs :
            LET amount == float(amount_in)
                read2 == read1 @@ [amount |-> amount_in]
            IN  IF amount = None
                THEN /\ last' = read2 @@ [out |-> "invalid amount"]
                     /\ UNCHANGED tables
                ELSE IF NonPositive(amount[1])
                THEN /\ last' = read2 @@ [out |-> "amount not positive"]
                     /\ UNCHANGED tables
                ELSE \E date_in \in DonationDateInputs :
                LET donation_date_str == strip(date_in)
                    read3 == read2 @@ [donation_date |-> date_in]
                IN  IF ~IsEmpty(donation_date_str)
                       /\ strptime(donation_date_str, FMT_DATETIME) = None
                    THEN /\ last' = read3 @@ [out |-> "invalid date"]
                         /\ UNCHANGED tables
                    ELSE \E now \in ClockValues,
                            volunteer_in \in NameInputs,
                            event_in \in NameInputs,
                            notes_in \in NotesInputs :
                    LET donation_date == IF IsEmpty(donation_date_str)
                                         THEN now ELSE donation_date_str
                        volunteer_name == strip(volunteer_in)
                        event_name == strip(event_in)
                        read4 == read3 @@ [volunteer_name |-> volunteer_in,
                                           event_name |-> event_in, notes |-> notes_in]
                    IN  \E volunteer_id \in
                               IF IsEmpty(volunteer_name) THEN {None}
                               ELSE find_id_by_name(Volunteers, "volunteer_id", volunteer_name),
                           event_id \in
                               IF IsEmpty(event_name) THEN {None}
                               ELSE find_id_by_name(Events, "event_id", event_name) :
                        LET lastrowid == sqlite_sequence.Donations + 1
                            row == [donation_id |-> lastrowid,
                                    donor_id |-> found_donor[1],
                                    amount |-> amount[1],
                                    donation_date |-> donation_date,
                                    volunteer_id |-> volunteer_id,
                                    event_id |-> event_id,
                                    notes |-> strip(notes_in)]
                        IN  IF ~DonationConstraints(row)
                            THEN /\ last' = read4 @@ [out |-> "error"]
                                 /\ UNCHANGED tables
                            ELSE /\ CanInsert
                                 /\ Donations' = Donations \cup {row}
                                 /\ sqlite_sequence' =
                                        [sqlite_sequence EXCEPT !.Donations = lastrowid]
                                 /\ last' = read4 @@ [out |-> "added", id |-> lastrowid]
                                 /\ UNCHANGED <<Donors, Volunteers, Events>>

\* ------------------------------------------------------------------ search

\* SQLite's LIKE: % matches any run of characters, _ any one character, any
\* other character itself without regard to ASCII case.
RECURSIVE Like(_, _)
Like(text, pattern) ==
    IF pattern = <<>> THEN text = <<>>
    ELSE IF Head(pattern) = "%"
    THEN Like(text, Tail(pattern)) \/ (text # <<>> /\ Like(Tail(text), pattern))
    ELSE /\ text # <<>>
         /\ Head(pattern) = "_" \/ LowerChar(Head(pattern)) = LowerChar(Head(text))
         /\ Like(Tail(text), Tail(pattern))

\* Donations d JOIN Donors dn LEFT JOIN Volunteers v LEFT JOIN Events e, with
\* the columns of the SELECT list; a NULL name is None.
JoinedDonations ==
    {[donation_id |-> d.donation_id,
      donor_name |-> dn.name,
      amount |-> d.amount,
      donation_date |-> d.donation_date,
      volunteer_name |->
          IF \E v \in Volunteers : d.volunteer_id = Some(v.volunteer_id)
          THEN Some((CHOOSE v \in Volunteers : d.volunteer_id = Some(v.volunteer_id)).name)
          ELSE None,
      event_name |->
          IF \E e \in Events : d.event_id = Some(e.event_id)
          THEN Some((CHOOSE e \in Events : d.event_id = Some(e.event_id)).name)
          ELSE None,
      notes |-> d.notes]
     : <<d, dn>> \in {p \in Donations \X Donors : p[1].donor_id = p[2].donor_id}}

\* WHERE LOWER(column) LIKE LOWER(?): NULL LIKE anything is not true.
WhereLike(column, param) ==
    column # None /\ Like(LOWER(column[1]), LOWER(param))

search_donations ==
    /\ AtMenu
    /\ \E choice \in SearchChoiceInputs, term_in \in TermInputs :
        LET search_term == strip(term_in)
            read == [op |-> "search_donations", choice |-> choice, term |-> term_in]
            params == <<"%">> \o search_term \o <<"%">>
            selected ==
                {r \in JoinedDonations :
                    CASE choice = "1" -> WhereLike(Some(r.donor_name), params)
                      [] choice = "2" -> WhereLike(r.volunteer_name, params)
                      [] choice = "3" -> WhereLike(r.event_name, params)
                      [] OTHER -> FALSE}
        IN  IF IsEmpty(search_term)
            THEN last' = read @@ [out |-> "empty term"]
            ELSE IF choice \notin {"1", "2", "3"}
            THEN last' = read @@ [out |-> "invalid choice"]
            ELSE \E results \in OrderByDonationDateDesc(selected) :
                    last' = read @@ [out |-> "results", results |-> results]
    /\ UNCHANGED tables

\* ------------------------------------------------------------------ menu

exit ==
    /\ AtMenu
    /\ last' = [op |-> "exit"]
    /\ UNCHANGED tables

invalid_choice ==
    /\ AtMenu
    /\ last' = [op |-> "invalid choice"]
    /\ UNCHANGED tables

\* input("\nPress Enter to continue..."), then clear_screen and the menu again.
press_enter ==
    /\ last.op \notin {"menu", "exit"}
    /\ last' = [op |-> "menu"]
    /\ UNCHANGED tables

\* The menu loop of main: at the menu, the operation the choice selects; after
\* it, the pause; nothing after choice 0.
main ==
    \/ add_donor
    \/ view_donors
    \/ update_donor
    \/ delete_donor
    \/ add_volunteer
    \/ add_event
    \/ add_donation
    \/ search_donations
    \/ exit
    \/ invalid_choice
    \/ press_enter

Next == main

Spec == Init /\ [][Next]_vars

\* ------------------------------------------------------------------ properties

\* Vocabulary of the properties, stated on what was typed and on the tables.

\* Some row of `rows` has the typed name, up to ASCII case.
Resolves(rows, typed) ==
    \E r \in rows : LOWER(r.name) = LOWER(strip(typed))

\* The typed amount is a number greater than zero.
PositiveAmount(typed) ==
    LET f == float(typed) IN f # None /\ f[1].kind = "num" /\ f[1].v > 0

\* The typed amount is not a number, or a number that is zero or less.
RejectedAmount(typed) ==
    LET f == float(typed) IN f = None \/ (f[1].kind = "num" /\ f[1].v <= 0)

\* The typed text is neither blank nor a date of the format.
Malformed(typed, fmt) ==
    strip(typed) # <<>> /\ strptime(strip(typed), fmt) = None

\* The typed id names a row of Donors.
ExistingDonor(typed) ==
    int(typed) # None /\ \E r \in Donors : r.donor_id = int(typed)[1]

Affirmative(typed) == LOWER(typed) = <<"y", "e", "s">>

\* `term` occurs in `text` as a substring.
Contains(text, term) ==
    \E i \in 0..(Len(text) - Len(term)) : SubSeq(text, i + 1, i + Len(term)) = term

\* Lexicographic order on parsed timestamps <<Y, M, D, h, m, s>>.
RECURSIVE Earlier(_, _)
Earlier(a, b) ==
    IF a = <<>> THEN FALSE
    ELSE IF Head(a) # Head(b) THEN Head(a) < Head(b)
    ELSE Earlier(Tail(a), Tail(b))

\* C1: in every reachable state, every Donations row has the donor_id of a
\* row present in Donors.
C1_DonationHasDonor ==
    \A d \in Donations : \E r \in Donors : r.donor_id = d.donor_id

\* C1 witness: a donor has just been deleted while another donor's donation
\* is in the table.
C1_Witness ==
    /\ last.op = "delete_donor"
    /\ last.out = "deleted"
    /\ Donations # {}

\* The add_donation step inserts exactly one row.
InsertsOneDonation ==
    /\ Donations \subseteq Donations'
    /\ Cardinality(Donations' \ Donations) = 1

\* C2 as stated: add_donation inserts exactly one row iff the amount is > 0 and
\* the donor name resolves; otherwise Donations is unchanged.
C2_InsertIffAmountAndDonor ==
    [][last'.op = "add_donation" =>
        IF /\ Resolves(Donors, last'.donor_name)
           /\ "amount" \in DOMAIN last'
           /\ PositiveAmount(last'.amount)
        THEN InsertsOneDonation
        ELSE Donations' = Donations]_vars

\* C2 amended: add_donation inserts exactly one row iff the donor name
\* resolves, the amount is a number > 0 and the timestamp is blank or well
\* formed; otherwise Donations is unchanged.
C2_InsertIffAllValid ==
    [][last'.op = "add_donation" =>
        IF /\ Resolves(Donors, last'.donor_name)
           /\ "amount" \in DOMAIN last'
           /\ PositiveAmount(last'.amount)
           /\ "donation_date" \in DOMAIN last'
           /\ ~Malformed(last'.donation_date, FMT_DATETIME)
        THEN InsertsOneDonation
        ELSE Donations' = Donations]_vars

\* C2 witness: a donation with a typed, well-formed timestamp has been added.
C2_Witness ==
    /\ last.op = "add_donation"
    /\ last.out = "added"
    /\ strip(last.donation_date) # <<>>
    /\ \E d \in Donations :
          d.donation_id = last.id /\ d.donation_date = strip(last.donation_date)

\* C3: delete_donor on an existing id with an affirmative confirmation removes
\* that donor row and all of that donor's donations, and nothing else.
C3_DeleteCascades ==
    [][(/\ last'.op = "delete_donor"
        /\ ExistingDonor(last'.id)
        /\ "confirm" \in DOMAIN last'
        /\ Affirmative(last'.confirm)) =>
        LET id == int(last'.id)[1]
        IN  /\ Donors' = {r \in Donors : r.donor_id # id}
            /\ Donations' = {d \in Donations : d.donor_id # id}
            /\ Volunteers' = Volunteers
            /\ Events' = Events]_vars

\* C3 witness: a donor has just been deleted with the one donation it owned,
\* and a volunteer added earlier is still there.
C3_Witness ==
    /\ last.op = "delete_donor"
    /\ last.out = "deleted"
    /\ Affirmative(last.confirm)
    /\ Donations = {}
    /\ sqlite_sequence.Donations = 1
    /\ Volunteers # {}

\* C4: an add_volunteer or add_event whose name is already in the table, to
\* the letter, leaves the whole store unchanged; so no two Volunteers rows and
\* no two Events rows ever have the same name.
C4_DuplicateRejected ==
    /\ [](/\ \A r, q \in Volunteers : r.name = q.name => r = q
          /\ \A r, q \in Events : r.name = q.name => r = q)
    /\ [][/\ (last'.op = "add_volunteer"
              /\ \E r \in Volunteers : r.name = strip(last'.name))
             => UNCHANGED tables
          /\ (last'.op = "add_event"
              /\ \E r \in Events : r.name = strip(last'.name))
             => UNCHANGED tables]_vars

\* C4 witness: a second volunteer of an existing name has just been refused
\* and the first row, with its own contact info, is the one in the table.
C4_Witness ==
    /\ last.op = "add_volunteer"
    /\ last.out = "integrity error"
    /\ \E r \in Volunteers :
          r.name = strip(last.name) /\ r.contact_info # strip(last.contact_info)

\* C5: in every reachable state, at most one Volunteers row and at most one
\* Events row matches any name under the resolver's comparison.
C5_SingleMatch ==
    \A typed \in NameInputs :
        /\ Cardinality({r \in Volunteers : LOWER(r.name) = LOWER(strip(typed))}) <= 1
        /\ Cardinality({r \in Events : LOWER(r.name) = LOWER(strip(typed))}) <= 1

\* C6: an operation that aborts on its input (empty name, malformed date,
\* unresolved donor, rejected amount, malformed timestamp, bad or unknown id,
\* no affirmative confirmation) leaves all four tables unchanged.
C6_AbortLeavesStore ==
    [][(\/ /\ last'.op \in {"add_donor", "add_volunteer", "add_event"}
           /\ strip(last'.name) = <<>>
        \/ /\ last'.op = "add_event"
           /\ Malformed(last'.event_date, FMT_DATE)
        \/ /\ last'.op = "add_donation"
           /\ \/ ~Resolves(Donors, last'.donor_name)
              \/ "amount" \in DOMAIN last' /\ RejectedAmount(last'.amount)
              \/ "donation_date" \in DOMAIN last'
                   /\ Malformed(last'.donation_date, FMT_DATETIME)
        \/ /\ last'.op \in {"update_donor", "delete_donor"}
           /\ ~ExistingDonor(last'.id)
        \/ /\ last'.op = "delete_donor"
           /\ "confirm" \in DOMAIN last'
           /\ ~Affirmative(last'.confirm))
        => UNCHANGED tables]_vars

\* C6 witness: add_donation has just stopped at a malformed timestamp, after a
\* resolved donor and a valid amount, with a donation already in the store.
C6_Witness ==
    /\ last.op = "add_donation"
    /\ last.out = "invalid date"
    /\ Resolves(Donors, last.donor_name)
    /\ PositiveAmount(last.amount)
    /\ Donations # {}

\* C7: update_donor on an existing id changes, on that row only, exactly the
\* fields answered non-blank; never the id, the donations or another table.
C7_UpdateExactFields ==
    [][last'.op = "update_donor" =>
        /\ Donations' = Donations
        /\ Volunteers' = Volunteers
        /\ Events' = Events
        /\ {r.donor_id : r \in Donors'} = {r.donor_id : r \in Donors}
        /\ IF ExistingDonor(last'.id) /\ "new_name" \in DOMAIN last'
           THEN LET id == int(last'.id)[1]
                    n == strip(last'.new_name)
                    c == strip(last'.new_contact_info)
                IN  Donors' =
                      {[donor_id |-> r.donor_id,
                        name |-> IF r.donor_id = id /\ n # <<>> THEN n ELSE r.name,
                        contact_info |-> IF r.donor_id = id /\ c # <<>>
                                         THEN c ELSE r.contact_info,
                        created_at |-> r.created_at] : r \in Donors}
           ELSE Donors' = Donors]_vars

\* C7 witness: an update with a blank name and a new contact info has just
\* been applied to a donor that owns a donation.
C7_Witness ==
    /\ last.op = "update_donor"
    /\ last.out = "updated"
    /\ strip(last.new_name) = <<>>
    /\ \E r \in Donors :
          /\ r.donor_id = int(last.id)[1]
          /\ r.contact_info = strip(last.new_contact_info)
          /\ \E d \in Donations : d.donor_id = r.donor_id

\* C8 as stated: a Volunteers, Events or Donations row, once present, is
\* present unchanged in every later state.
C8_AppendOnly ==
    [][/\ Volunteers \subseteq Volunteers'
       /\ Events \subseteq Events'
       /\ Donations \subseteq Donations']_vars

\* C8 amended: Volunteers and Events rows stay unchanged for ever; a Donations
\* row stays unchanged until delete_donor deletes the donor that owns it.
C8_AppendOnlyButCascade ==
    [][/\ Volunteers \subseteq Volunteers'
       /\ Events \subseteq Events'
       /\ \A d \in Donations :
             \/ d \in Donations'
             \/ /\ last'.op = "delete_donor"
                /\ ExistingDonor(last'.id)
                /\ int(last'.id)[1] = d.donor_id]_vars

\* C8 witness: both donations of a donor have just gone with it.
C8_Witness ==
    /\ last.op = "delete_donor"
    /\ ExistingDonor(last.id) = FALSE
    /\ "confirm" \in DOMAIN last
    /\ Donations = {}
    /\ sqlite_sequence.Donations = 2

\* The reference an add_donation stored for a typed volunteer or event name:
\* empty when the name is blank or resolves to nothing, else the id of a row
\* whose name is the typed one up to case.
SoftReference(ref, rows, id, typed) ==
    /\ (strip(typed) = <<>> \/ ~Resolves(rows, typed)) => ref = None
    /\ ref # None =>
          \E r \in rows : r[id] = ref[1] /\ LOWER(r.name) = LOWER(strip(typed))

\* C9: with a resolved donor, a valid amount and timestamp, add_donation
\* inserts the donation whether or not the volunteer and event names resolve;
\* an unresolved reference is stored empty, a stored one is the id of a row
\* whose name is the typed name up to case.
C9_SoftFailure ==
    [][(/\ last'.op = "add_donation"
        /\ Resolves(Donors, last'.donor_name)
        /\ "amount" \in DOMAIN last'
        /\ PositiveAmount(last'.amount)
        /\ "donation_date" \in DOMAIN last'
        /\ ~Malformed(last'.donation_date, FMT_DATETIME)) =>
        /\ InsertsOneDonation
        /\ \A d \in Donations' \ Donations :
              /\ SoftReference(d.volunteer_id, Volunteers, "volunteer_id",
                               last'.volunteer_name)
              /\ SoftReference(d.event_id, Events, "event_id", last'.event_name)]_vars

\* C9 witness: a donation has been added with a volunteer name that resolves
\* to nothing, stored without volunteer, and an event name that resolves.
C9_Witness ==
    /\ last.op = "add_donation"
    /\ last.out = "added"
    /\ strip(last.volunteer_name) # <<>>
    /\ ~Resolves(Volunteers, last.volunteer_name)
    /\ \E d \in Donations :
          /\ d.donation_id = last.id
          /\ d.volunteer_id = None
          /\ d.event_id # None

\* The name a result row carries on the axis of the search.
AxisName(r, choice) ==
    CASE choice = "1" -> Some(r.donor_name)
      [] choice = "2" -> r.volunteer_name
      [] choice = "3" -> r.event_name

\* What C10 says of the screen after a search.
C10_Results ==
    last.op = "search_donations" =>
        IF strip(last.term) # <<>> /\ last.choice \in {"1", "2", "3"}
        THEN /\ "results" \in DOMAIN last
             /\ {last.results[i] : i \in DOMAIN last.results} =
                   {r \in JoinedDonations :
                       /\ AxisName(r, last.choice) # None
                       /\ Contains(LOWER(AxisName(r, last.choice)[1]),
                                   LOWER(strip(last.term)))}
             /\ \A i, j \in DOMAIN last.results :
                   i < j => ~Earlier(strptime(last.results[i].donation_date, FMT_DATETIME)[1],
                                     strptime(last.results[j].donation_date, FMT_DATETIME)[1])
        ELSE "results" \notin DOMAIN last

\* C10: with a valid axis and a non-empty term, search_donations returns
\* exactly the donations whose name on that axis contains the term, up to
\* case, newest timestamp first (so a search by donor includes donations
\* without volunteer or event); with an empty term or an invalid axis it
\* returns no result set; and it never changes the store.
C10_SearchContains ==
    /\ []C10_Results
    /\ [][last'.op = "search_donations" => UNCHANGED tables]_vars

====
